---------------------------- MODULE Spec2Model ----------------------------
(***************************************************************************)
(* A model of baker (aliev/baker), a project scaffolding tool.            *)
(*                                                                         *)
(* Strings are sequences of tokens.  A token is an atomic piece of text   *)
(* ("a", ".txt", ".baker", ".j2", the path separator "/", the parent      *)
(* directory name "..") or one template expression ("{{file_name}}").     *)
(* Operations on strings of the source (split, ends_with, strip_suffix,   *)
(* strip_prefix, join) are modelled on these sequences.                   *)
(*                                                                         *)
(* Specifications:                                                         *)
(*   SpecProcess  TemplateProcessor::process, the decision function       *)
(*   SpecCtx      parser.rs get_context, the question loop                *)
(*   SpecAsk      question.rs render and the loop that asks               *)
(*   SpecRun      main.rs run, from the output directory to the post hook *)
(*   SpecWalk     the walk of run with process deciding each entry        *)
(*   SpecHook     hooks.rs run_hook and the hook process it spawns        *)
(***************************************************************************)
EXTENDS Integers, Sequences, FiniteSets, TLC

VARIABLES
    pc,          \* position of the modelled procedure
    entry,       \* the template entry being processed: [path, is_file, content]
    answers,     \* the answer context (a function from keys to values)
    bakerignore, \* the compiled ignore set (a set of patterns)
    out_fs,      \* the output tree: a function from paths to "dir" or file content
    result,      \* what the modelled procedure returned
    config,      \* the question set: a sequence of items in file order
    parsed,      \* the pre-supplied answers value (--context), parsed
    qi,          \* index of the question the loop is at
    visible,     \* per key, the context its help and default were rendered with
    prompted,    \* the keys the interactive prompt was shown for
    consulted,   \* the keys looked up in the pre-supplied answers
    shown,       \* per key that was prompted for, the text of the prompt
    args,        \* the command line: [force, overwrite, skip_hooks_check]
    tmpl,        \* the template tree: the set of its entries
    todo,        \* the entries the walk has not reached yet
    log,         \* per entry the walk reached, what became of it
    execute_hooks, \* whether the hooks were confirmed
    hook_log,    \* the hooks that were started, with how they ended
    fs0,         \* the output tree when the run began
    child,       \* the hook process run_hook spawned, as the system sees it
    child_stdin, \* the pipe to the standard input of the hook
    output_data  \* the serialized document run_hook has to write

vars == <<pc, entry, answers, bakerignore, out_fs, result,
          config, parsed, qi, visible, prompted, consulted, shown,
          args, tmpl, todo, log, execute_hooks, hook_log, fs0,
          child, child_stdin, output_data>>

hookVars == <<child, child_stdin, output_data>>

runVars == <<args, tmpl, todo, log, execute_hooks, hook_log, fs0>>

procVars == <<entry, bakerignore, out_fs, result>>

ctxVars == <<config, parsed, qi, visible, prompted, consulted, shown>>

----------------------------------------------------------------------------
(* Strings *)

SEP == "/"

PARENT == ".."

Min(a, b) == IF a < b THEN a ELSE b

\* str.ends_with(suffix)
EndsWith(s, suffix) ==
    /\ Len(s) >= Len(suffix)
    /\ SubSeq(s, Len(s) - Len(suffix) + 1, Len(s)) = suffix

\* str.strip_suffix(suffix).unwrap_or(str)
StripSuffixOrSelf(s, suffix) ==
    IF EndsWith(s, suffix) THEN SubSeq(s, 1, Len(s) - Len(suffix)) ELSE s

RECURSIVE SplitAcc(_, _, _)
SplitAcc(s, cur, acc) ==
    IF s = <<>> THEN Append(acc, cur)
    ELSE IF Head(s) = SEP THEN SplitAcc(Tail(s), <<>>, Append(acc, cur))
    ELSE SplitAcc(Tail(s), Append(cur, Head(s)), acc)

\* str.split(MAIN_SEPARATOR): "a//b" gives <<a, <<>>, b>>, "" gives << <<>> >>
Split(s) == SplitAcc(s, <<>>, <<>>)

RECURSIVE JoinSegs(_)
JoinSegs(segs) ==
    IF segs = <<>> THEN <<>>
    ELSE IF Len(segs) = 1 THEN segs[1]
    ELSE segs[1] \o <<SEP>> \o JoinSegs(Tail(segs))

RECURSIVE DropEmptyFront(_)
DropEmptyFront(segs) ==
    IF segs # <<>> /\ Head(segs) = <<>> THEN DropEmptyFront(Tail(segs)) ELSE segs

RECURSIVE DropEmptyBack(_)
DropEmptyBack(segs) ==
    IF segs # <<>> /\ segs[Len(segs)] = <<>>
    THEN DropEmptyBack(SubSeq(segs, 1, Len(segs) - 1))
    ELSE segs

RECURSIVE NonEmptySegs(_)
NonEmptySegs(segs) ==
    IF segs = <<>> THEN <<>>
    ELSE IF Head(segs) = <<>> THEN NonEmptySegs(Tail(segs))
    ELSE <<Head(segs)>> \o NonEmptySegs(Tail(segs))

\* Path::components() of a relative path: the non-empty segments
Components(p) == NonEmptySegs(Split(p))


----------------------------------------------------------------------------
(* The template engine (MiniJinja, default environment: an undefined      *)
(* variable renders as the empty string, a syntax error is an error)      *)

\* expression tokens that print a variable
VarTokens == {"{{file_name}}", "{{greetings}}"}

VarOf(tok) == IF tok = "{{file_name}}" THEN "file_name" ELSE "greetings"

\* expression tokens that print their body when a variable is true
CondTokens == {"{%if create_dir%}hello{%endif%}"}

CondVarOf(tok) == "create_dir"

CondBodyOf(tok) == <<"hello">>

\* an expression that does not parse
BadTokens == {"{%bad"}

\* serde_json::Value as a tagged tuple of strings
JNull == <<"null">>

JStr(s) == <<"str">> \o s

JBool(b) == <<"bool", IF b THEN "true" ELSE "false">>

JNum(n) == <<"num", ToString(n)>>

is_null(v) == v = JNull

is_str(v) == Head(v) = "str"

is_bool(v) == Head(v) = "bool"

\* how the engine prints a value
Display(v) ==
    IF is_null(v) THEN <<"none">> ELSE Tail(v)

\* how the engine tests a value in a condition
Truthy(v) ==
    IF is_null(v) THEN FALSE
    ELSE IF is_bool(v) THEN v = JBool(TRUE)
    ELSE IF is_str(v) \/ Head(v) = "arr" THEN Tail(v) # <<>>
    ELSE v # JNum(0)

IsTrue(ctx, key) == key \in DOMAIN ctx /\ Truthy(ctx[key])

RenderToken(tok, ctx) ==
    IF tok \in VarTokens
    THEN (IF VarOf(tok) \in DOMAIN ctx THEN Display(ctx[VarOf(tok)]) ELSE <<>>)
    ELSE IF tok \in CondTokens
    THEN (IF IsTrue(ctx, CondVarOf(tok)) THEN CondBodyOf(tok) ELSE <<>>)
    ELSE <<tok>>

RECURSIVE RenderTokens(_, _)
RenderTokens(template, ctx) ==
    IF template = <<>> THEN <<>>
    ELSE RenderToken(Head(template), ctx) \o RenderTokens(Tail(template), ctx)

\* TemplateRenderer::render(template, context) -> Result<String>
Render(template, ctx) ==
    IF \E i \in 1..Len(template) : template[i] \in BadTokens
    THEN [ok |-> FALSE, s |-> <<>>]
    ELSE [ok |-> TRUE, s |-> RenderTokens(template, ctx)]

\* render_path: the whole path string is rendered as one template
render_path(template_entry, ctx) == Render(template_entry, ctx)

----------------------------------------------------------------------------
(* Paths (std::path on a Unix target, relative paths)                     *)

template_root == <<"t">>

output_root == <<"o">>

template_suffix == <<".baker", ".j2">>

\* Path::file_name(): the last component, None when there is none or it is ".."
FileName(p) ==
    LET c == Components(p) IN
    IF c = <<>> \/ c[Len(c)] = <<PARENT>>
    THEN [some |-> FALSE, name |-> <<>>]
    ELSE [some |-> TRUE, name |-> c[Len(c)]]

RECURSIVE StripPrefixSegs(_, _)
StripPrefixSegs(segs, base) ==
    IF base = <<>>
    THEN [ok |-> TRUE, p |-> JoinSegs(DropEmptyBack(DropEmptyFront(segs)))]
    ELSE IF segs = <<>> THEN [ok |-> FALSE, p |-> <<>>]
    ELSE IF Head(segs) = <<>> THEN StripPrefixSegs(Tail(segs), base)
    ELSE IF Head(segs) = Head(base) THEN StripPrefixSegs(Tail(segs), Tail(base))
    ELSE [ok |-> FALSE, p |-> <<>>]

\* Path::strip_prefix(base): components are compared, the rest of the string
\* is returned without leading or trailing separators
StripPrefix(p, base) == StripPrefixSegs(Split(p), Components(base))

\* Path::join(rel) for a relative rel
PathJoin(base, rel) ==
    IF base # <<>> /\ base[Len(base)] # SEP THEN base \o <<SEP>> \o rel
    ELSE base \o rel

RECURSIVE Walk(_, _, _)
Walk(fs, comps, cur) ==
    IF comps = <<>> THEN [ok |-> cur = <<>> \/ cur \in DOMAIN fs, at |-> cur]
    ELSE IF cur # <<>> /\ ~(cur \in DOMAIN fs /\ fs[cur].kind = "dir")
    THEN [ok |-> FALSE, at |-> cur]
    ELSE IF Head(comps) = <<PARENT>>
    THEN (IF cur = <<>> THEN [ok |-> FALSE, at |-> cur]
          ELSE Walk(fs, Tail(comps), SubSeq(cur, 1, Len(cur) - 1)))
    ELSE Walk(fs, Tail(comps), Append(cur, Head(comps)))

\* Path::exists(): the path is resolved by the operating system from the
\* working directory; fs maps the sequences of names that exist to their node
PathExists(fs, p) == Walk(fs, Components(p), <<>>).ok


----------------------------------------------------------------------------
(* The ignore matcher (globset::GlobSet over whole paths).  A pattern is a *)
(* sequence of segments; the segment <<"**">> matches any run of segments  *)

ANYDIRS == <<"**">>

RECURSIVE GlobMatch(_, _)
GlobMatch(pat, segs) ==
    IF pat = <<>> THEN segs = <<>>
    ELSE IF Head(pat) = ANYDIRS
    THEN (IF Len(pat) = 1 THEN segs # <<>>
          ELSE \E k \in 0..Len(segs) :
                  GlobMatch(Tail(pat), SubSeq(segs, k + 1, Len(segs))))
    ELSE segs # <<>> /\ Head(segs) = Head(pat) /\ GlobMatch(Tail(pat), Tail(segs))

\* GlobSet::is_match(path)
is_match(globset, path) == \E pat \in globset : GlobMatch(pat, Split(path))

----------------------------------------------------------------------------
(* TemplateOperation and the results of process *)

NONE == <<>>

OpCopy(source, target, target_exists) ==
    [kind |-> "Copy", source |-> source, target |-> target, content |-> NONE,
     target_exists |-> target_exists, e |-> ""]

OpWrite(target, content, target_exists) ==
    [kind |-> "Write", source |-> NONE, target |-> target, content |-> content,
     target_exists |-> target_exists, e |-> ""]

OpCreateDirectory(target, target_exists) ==
    [kind |-> "CreateDirectory", source |-> NONE, target |-> target,
     content |-> NONE, target_exists |-> target_exists, e |-> ""]

OpIgnore(source) ==
    [kind |-> "Ignore", source |-> source, target |-> NONE, content |-> NONE,
     target_exists |-> FALSE, e |-> ""]

Err(e) ==
    [kind |-> "Err", source |-> NONE, target |-> NONE, content |-> NONE,
     target_exists |-> FALSE, e |-> e]

PATH_INVALID == "The rendered path is not valid"

RENDER_ERROR == "Failed to render"

PREFIX_ERROR == "prefix not found"

----------------------------------------------------------------------------
(* TemplateProcessor (src/template/processor.rs) *)

\* a variant that never looks at the last pair of segments
has_valid_rendered_path_parts_skip_last(template_path, rendered_path) ==
    LET tparts == Split(template_path)
        rparts == Split(rendered_path)
    IN  \A i \in 1..(Min(Len(tparts), Len(rparts)) - 1) :
            ~(tparts[i] # <<>> /\ rparts[i] = <<>>)

has_valid_rendered_path_parts(template_path, rendered_path) ==
    LET tparts == Split(template_path)
        rparts == Split(rendered_path)
    IN  \A i \in 1..Min(Len(tparts), Len(rparts)) :
            ~(tparts[i] # <<>> /\ rparts[i] = <<>>)

\* a variant that takes the last extension alone for the template suffix
is_template_file_last_extension(path) ==
    FileName(path).some /\ EndsWith(FileName(path).name, <<".j2">>)

is_template_file(path) ==
    FileName(path).some /\ EndsWith(FileName(path).name, template_suffix)

render_template_entry(template_entry, ctx) ==
    LET rendered == render_path(template_entry, ctx) IN
    IF ~rendered.ok THEN [ok |-> FALSE, e |-> RENDER_ERROR, p |-> <<>>]
    ELSE IF ~has_valid_rendered_path_parts(template_entry, rendered.s)
    THEN [ok |-> FALSE, e |-> PATH_INVALID, p |-> <<>>]
    ELSE [ok |-> TRUE, e |-> "", p |-> rendered.s]

RECURSIVE StripSuffixAll(_, _)
StripSuffixAll(s, suffix) ==
    IF EndsWith(s, suffix)
    THEN StripSuffixAll(SubSeq(s, 1, Len(s) - Len(suffix)), suffix)
    ELSE s

\* a variant that removes every trailing occurrence (trim_end_matches)
remove_template_suffix_all(target_path) ==
    StripSuffixAll(target_path, template_suffix)

remove_template_suffix(target_path) ==
    StripSuffixOrSelf(target_path, template_suffix)

get_target_path(rendered_entry) ==
    LET rel == StripPrefix(rendered_entry, template_root) IN
    IF ~rel.ok THEN [ok |-> FALSE, e |-> PREFIX_ERROR, p |-> <<>>]
    ELSE [ok |-> TRUE, e |-> "", p |-> PathJoin(output_root, rel.p)]

\* the match on (template_entry.is_file(), is_template_file(rendered_entry))
process_branch(e, rendered_entry, target_path, target_exists, ctx) ==
    IF e.is_file /\ is_template_file(rendered_entry)
    THEN LET content == Render(e.content, ctx) IN
         IF ~content.ok THEN Err(RENDER_ERROR)
         ELSE OpWrite(remove_template_suffix(target_path), content.s,
                      target_exists)
    ELSE IF e.is_file
    THEN OpCopy(e.path, target_path, target_exists)
    ELSE OpCreateDirectory(target_path, target_exists)

\* a variant that leaves alone whatever is already in the output tree
process_skips_existing(e, ctx, globset, fs) ==
    LET rendered == render_template_entry(e.path, ctx) IN
    IF ~rendered.ok THEN Err(rendered.e)
    ELSE LET target == get_target_path(rendered.p) IN
         IF ~target.ok THEN Err(target.e)
         ELSE IF is_match(globset, e.path) \/ PathExists(fs, target.p)
         THEN OpIgnore(rendered.p)
         ELSE process_branch(e, rendered.p, target.p, FALSE, ctx)

process(e, ctx, globset, fs) ==
    LET rendered == render_template_entry(e.path, ctx) IN
    IF ~rendered.ok THEN Err(rendered.e)
    ELSE LET target == get_target_path(rendered.p) IN
         IF ~target.ok THEN Err(target.e)
         ELSE IF is_match(globset, e.path) THEN OpIgnore(rendered.p)
         ELSE process_branch(e, rendered.p, target.p,
                             PathExists(fs, target.p), ctx)


----------------------------------------------------------------------------
(* parse_bakerignore_file (src/ignore.rs) *)

Seg(name) == <<name>>

\* DEFAULT_IGNORE_PATTERNS, each split into its segments
DEFAULT_IGNORE_PATTERNS ==
    { <<Seg(".git"), ANYDIRS>>, <<Seg(".git")>>,
      <<Seg(".hg"), ANYDIRS>>, <<Seg(".hg")>>,
      <<Seg(".svn"), ANYDIRS>>, <<Seg(".svn")>>,
      <<ANYDIRS, Seg(".DS_Store")>>,
      <<Seg(".bakerignore")>>,
      <<Seg("hooks")>>, <<Seg("hooks"), ANYDIRS>>,
      <<Seg("baker.yaml")>>, <<Seg("baker.yml")>>, <<Seg("baker.json")>> }

\* str::trim on a line: the blanks at both ends are dropped
RECURSIVE TrimFront(_)
TrimFront(line) ==
    IF line # <<>> /\ Head(line) = " " THEN TrimFront(Tail(line)) ELSE line

RECURSIVE TrimBack(_)
TrimBack(line) ==
    IF line # <<>> /\ line[Len(line)] = " "
    THEN TrimBack(SubSeq(line, 1, Len(line) - 1))
    ELSE line

Trim(line) == TrimBack(TrimFront(line))

\* the lines of the ignore file that are patterns: not empty, no comment
PatternLines(file) ==
    IF ~file.exists THEN {}
    ELSE { Trim(file.lines[i]) : i \in 1..Len(file.lines) }
             \ ({ <<>> } \cup { l \in { Trim(file.lines[i]) : i \in 1..Len(file.lines) } :
                                   l # <<>> /\ Head(l) = "#" })

\* patterns Glob::new refuses
BadGlobs == { <<"[">> }

\* a pattern line, split into its segments
file_patterns(file) == { Split(l) : l \in PatternLines(file) }

\* a variant in which the patterns of the ignore file replace the defaults
parse_bakerignore_file_override(root, patterns) ==
    IF patterns # {} THEN { Components(root) \o pat : pat \in patterns }
    ELSE { Components(root) \o pat : pat \in DEFAULT_IGNORE_PATTERNS }

\* template_root.join(pattern) for every default pattern, then for every
\* pattern line of the user's ignore file
parse_bakerignore_file(root, user_patterns) ==
    { Components(root) \o pat : pat \in DEFAULT_IGNORE_PATTERNS }
        \cup { Components(root) \o pat : pat \in user_patterns }

----------------------------------------------------------------------------
(* Inputs of the decision function *)

MaxDepth == 2

\* names of template files and directories (no separator inside a name)
NamePool ==
    { <<"a", ".txt">>,
      <<"a", ".j2">>,
      <<"a", ".baker", ".j2">>,
      <<"a", ".baker", ".j2", ".baker", ".j2">>,
      <<"{{file_name}}">>,
      <<"{{file_name}}", ".txt">>,
      <<"{{file_name}}", ".baker", ".j2">>,
      <<"{{file_name}}", ".txt", ".baker", ".j2">>,
      <<"{%if create_dir%}hello{%endif%}">>,
      <<"hooks">>,
      <<"{%bad">> }

\* names of the directories above an entry
DirPool ==
    { <<"d">>, <<"{%if create_dir%}hello{%endif%}">>, <<"hooks">> }

ContentPool == { <<"{{greetings}}">>, <<"x", "{%bad">> }

RECURSIVE DirPaths(_)
DirPaths(k) ==
    IF k = 0 THEN {template_root}
    ELSE { p \o <<SEP>> \o d : p \in DirPaths(k - 1), d \in DirPool }

EntryPaths ==
    UNION { { p \o <<SEP>> \o n : p \in DirPaths(k), n \in NamePool } :
            k \in 0..(MaxDepth - 1) }

Entries ==
    { [path |-> p, is_file |-> TRUE, content |-> c] :
        p \in EntryPaths, c \in ContentPool }
    \cup { [path |-> p, is_file |-> FALSE, content |-> NONE] : p \in EntryPaths }

Opt(key, values) == { <<>> } \cup { key :> v : v \in values }

FileNameValues ==
    { <<"a">>, <<"b", ".baker", ".j2">>, <<PARENT>>, <<"a", SEP, "b">>,
      <<"a", SEP>>, <<PARENT, SEP, "a">> }

AnswerContexts ==
    { f @@ c @@ g :
        f \in Opt("file_name", { JStr(v) : v \in FileNameValues }),
        c \in Opt("create_dir", { JBool(b) : b \in BOOLEAN }),
        g \in Opt("greetings", { JStr(<<"Hi">>) }) }

Dir == [kind |-> "dir", data |-> NONE]

File(data) == [kind |-> "file", data |-> data]

\* output trees: nothing yet, an empty output root, an output root with files
OutputTrees ==
    { <<>>,
      <<Seg("o")>> :> Dir,
      (<<Seg("o")>> :> Dir) @@ (<<Seg("o"), <<"a">> >> :> File(<<"old">>))
          @@ (<<Seg("o"), <<"a", ".txt">> >> :> File(<<"old">>))
          @@ (<<Seg("o"), <<"hello">> >> :> Dir) }

NoIgnoreFile == [exists |-> FALSE, lines |-> <<>>]

IgnoreFile(lines) == [exists |-> TRUE, lines |-> lines]

\* the user's ignore file: none, comments and blank lines only, a pattern,
\* a line that reads like the negation of a default, a pattern that does
\* not compile
IgnoreFiles ==
    { NoIgnoreFile,
      IgnoreFile(<< <<"#", "d", SEP, "**">>, <<" ">> >>),
      IgnoreFile(<< <<" ", "d", SEP, "**", " ">> >>),
      IgnoreFile(<< <<"#", "x">>, <<"!hooks">> >>),
      IgnoreFile(<< <<"[">> >>) }

\* the pattern sets of the ignore files whose patterns all compile
UserPatterns ==
    { file_patterns(f) : f \in { g \in IgnoreFiles : PatternLines(g) \cap BadGlobs = {} } }

NoResult ==
    [kind |-> "None", source |-> NONE, target |-> NONE, content |-> NONE,
     target_exists |-> FALSE, e |-> ""]

\* the state of the run when no run is involved
NoRun ==
    /\ args = [force |-> FALSE, overwrite |-> "none", skip_hooks_check |-> FALSE]
    /\ tmpl = {}
    /\ todo = {}
    /\ log = <<>>
    /\ execute_hooks = FALSE
    /\ hook_log = <<>>
    /\ fs0 = <<>>

\* the state of the hook process when no hook is involved
NoHook ==
    /\ child = [state |-> "none"]
    /\ child_stdin = [state |-> "none"]
    /\ output_data = <<>>

\* the state of the question loop when no question set is involved
NoQuestions ==
    /\ config = <<>>
    /\ parsed = [kind |-> "null", obj |-> <<>>]
    /\ qi = 1
    /\ visible = <<>>
    /\ prompted = {}
    /\ consulted = {}
    /\ shown = <<>>

----------------------------------------------------------------------------
(* SpecProcess: one call of TemplateProcessor::process on any entry, answer *)
(* context, ignore file and output tree                                     *)

InitProcess ==
    /\ pc = "process"
    /\ entry \in Entries
    /\ answers \in AnswerContexts
    /\ bakerignore \in { parse_bakerignore_file(template_root, u) : u \in UserPatterns }
    /\ out_fs \in OutputTrees
    /\ result = NoResult
    /\ NoQuestions
    /\ NoRun
    /\ NoHook

Process ==
    /\ pc = "process"
    /\ result' = process(entry, answers, bakerignore, out_fs)
    /\ pc' = "processed"
    /\ UNCHANGED <<entry, answers, bakerignore, out_fs>>
    /\ UNCHANGED ctxVars
    /\ UNCHANGED hookVars
    /\ UNCHANGED runVars

NextProcess == Process

SpecProcess == InitProcess /\ [][NextProcess]_vars


----------------------------------------------------------------------------
(* The question loop of parser.rs: get_context and what it calls *)

JArr(labels) == <<"arr">> \o labels

\* item.default is an Option: None
ABSENT == <<"absent">>

\* serde_json::Value::get(key): Some only on an object that has the key
ValueGet(context, key) ==
    IF context.kind = "obj" /\ key \in DOMAIN context.obj
    THEN [some |-> TRUE, v |-> context.obj[key]]
    ELSE [some |-> FALSE, v |-> JNull]

\* a variant that takes a null value for a missing key, as the doc comment
\* of the function has it
get_value_or_default_null_falls_back(key, context, default) ==
    LET got == ValueGet(context, key)
    IN  IF got.some /\ ~is_null(got.v) THEN got.v
        ELSE IF ~is_null(default) THEN default
        ELSE JNull

get_value_or_default(key, context, default) ==
    LET got == ValueGet(context, key)
    IN  IF got.some THEN got.v
        ELSE IF ~is_null(default) THEN default
        ELSE JNull

\* choices.iter().position(|choice| choice == label), 0-based
RECURSIVE Position(_, _, _)
Position(choices, label, i) ==
    IF i > Len(choices) THEN [some |-> FALSE, at |-> 0]
    ELSE IF choices[i] = label THEN [some |-> TRUE, at |-> i - 1]
    ELSE Position(choices, label, i + 1)

\* a variant that counts the positions from one
get_single_choice_default_one_based(item) ==
    IF item.default # ABSENT /\ is_str(item.default)
           /\ Len(item.default) = 2
           /\ Position(item.choices, item.default[2], 1).some
    THEN JNum(Position(item.choices, item.default[2], 1).at + 1)
    ELSE JNum(0)

get_single_choice_default(item) ==
    IF item.default # ABSENT /\ is_str(item.default)
           /\ Len(item.default) = 2
    THEN JNum(Position(item.choices, item.default[2], 1).at)
    ELSE JNum(0)

get_text_default(item, ctx) ==
    IF item.default # ABSENT /\ is_str(item.default)
    THEN LET r == Render(Tail(item.default), ctx)
         IN  IF r.ok THEN JStr(r.s) ELSE JStr(<<>>)
    ELSE JStr(<<>>)

get_yes_no_default(item) ==
    IF item.default # ABSENT /\ is_bool(item.default)
    THEN item.default
    ELSE JBool(FALSE)

\* the match on item_type, choices and multiselect in get_context
question_type(item) ==
    IF item.item_type = "bool" THEN "YesNo"
    ELSE IF item.choices # <<>>
    THEN (IF item.multiselect THEN "MultipleChoice" ELSE "SingleChoice")
    ELSE "Text"

\* engine.render(&item.help, &current_context).unwrap_or(item.help.clone())
help_rendered(item, ctx) ==
    LET r == Render(item.help, ctx) IN IF r.ok THEN r.s ELSE item.help

\* the default value get_context hands to get_question_value
default_value(item, ctx) ==
    CASE question_type(item) = "MultipleChoice" -> JNull
      [] question_type(item) = "SingleChoice" -> get_single_choice_default(item)
      [] question_type(item) = "Text" -> get_text_default(item, ctx)
      [] question_type(item) = "YesNo" -> get_yes_no_default(item)

\* a variant that decides per key: it prompts for a key the value lacks
get_question_value_per_key(key, default, context) ==
    IF ~ValueGet(context, key).some
    THEN [prompt |-> TRUE, value |-> JNull]
    ELSE [prompt |-> FALSE, value |-> get_value_or_default(key, context, default)]

\* get_question_value: the prompt when the pre-supplied value is null,
\* get_value_or_default otherwise
get_question_value(key, default, context) ==
    IF context.kind = "null"
    THEN [prompt |-> TRUE, value |-> JNull]
    ELSE [prompt |-> FALSE, value |-> get_value_or_default(key, context, default)]

\* a variant that is taken once, before the loop
current_context_stale(ans) == <<>>

\* serde_json::Value::Object(answers.clone())
current_context(ans) == ans

\* a variant that drops null values
insert_non_null(map, key, value) ==
    IF is_null(value) THEN map
    ELSE [k \in DOMAIN map \cup {key} |-> IF k = key THEN value ELSE map[k]]

\* serde_json::Map::insert
insert(map, key, value) ==
    [k \in DOMAIN map \cup {key} |-> IF k = key THEN value ELSE map[k]]

\* what the prompt of each question type can return
PromptAnswers(item) ==
    CASE question_type(item) = "MultipleChoice" ->
             { JArr(<<>>), JArr(<<item.choices[1]>>), JArr(item.choices) }
      [] question_type(item) = "SingleChoice" ->
             { JStr(<<item.choices[i]>>) : i \in 1..Len(item.choices) }
      [] question_type(item) = "Text" -> { JStr(<<>>), JStr(<<"typed">>) }
      [] question_type(item) = "YesNo" -> { JBool(b) : b \in BOOLEAN }

----------------------------------------------------------------------------
(* SpecCtx: one call of get_context on any question set and any            *)
(* pre-supplied answers value                                              *)

MaxQuestions == 3

Item(key, item_type, help, choices, multiselect, default) ==
    [key |-> key, item_type |-> item_type, help |-> help, choices |-> choices,
     multiselect |-> multiselect, default |-> default]

ItemPool ==
    { Item("file_name", "str", h, <<>>, FALSE, d) :
        h \in { <<"name?">>, <<"{{greetings}}", "?">> },
        d \in { ABSENT, JStr(<<"a">>), JStr(<<"{{greetings}}">>),
                JStr(<<"{%bad">>), JBool(TRUE) } }
    \cup { Item("greetings", "str", <<"greet?">>, <<"Hi", "Yo">>, m, d) :
        m \in BOOLEAN, d \in { ABSENT, JStr(<<"Yo">>), JStr(<<"zz">>) } }
    \cup { Item("greetings", "str", <<"greet?">>, <<"Hi", "Yo">>, FALSE,
                 JBool(TRUE)) }
    \cup { Item("create_dir", "bool", <<"dir?">>, <<>>, FALSE, d) :
        d \in { ABSENT, JBool(TRUE), JStr(<<"yes">>) } }
    \cup { Item("license", "str", <<"license?">>, <<>>, FALSE, d) :
        d \in { ABSENT, JStr(<<"MIT">>) } }

\* question sets: the keys of an IndexMap are distinct
DistinctKeys(c) ==
    \A i, j \in 1..Len(c) : c[i].key = c[j].key => i = j

RECURSIVE ConfigsOfLen(_)
ConfigsOfLen(n) ==
    IF n = 0 THEN { <<>> }
    ELSE UNION { { Append(c, it) :
                     it \in { i \in ItemPool : DistinctKeys(Append(c, i)) } } :
                 c \in ConfigsOfLen(n - 1) }

Configs == UNION { ConfigsOfLen(n) : n \in 1..MaxQuestions }

ParsedObjects ==
    { f @@ g @@ c :
        f \in Opt("file_name", { JStr(<<"p">>), JNull }),
        g \in Opt("greetings", { JStr(<<"Yo">>) }),
        c \in Opt("create_dir", { JBool(FALSE) }) }

\* get_context_value: null for an empty --context, else any JSON value
ParsedValues ==
    { [kind |-> "null", obj |-> <<>>], [kind |-> "other", obj |-> <<>>] }
    \cup { [kind |-> "obj", obj |-> o] : o \in ParsedObjects }

NoEntry == [path |-> <<>>, is_file |-> FALSE, content |-> NONE]

NoProcessing ==
    /\ entry = NoEntry
    /\ bakerignore = {}
    /\ out_fs = <<>>
    /\ result = NoResult

InitCtx ==
    /\ pc = "asking"
    /\ config \in Configs
    /\ parsed \in ParsedValues
    /\ answers = <<>>
    /\ qi = 1
    /\ visible = <<>>
    /\ prompted = {}
    /\ consulted = {}
    /\ shown = <<>>
    /\ NoProcessing
    /\ NoRun
    /\ NoHook

\* the value get_question_value decides on for the question the loop is at
Decision ==
    LET item == config[qi]
        cc == current_context(answers)
    IN  get_question_value(item.key, default_value(item, cc), parsed)

\* one iteration of the loop, the value being typed at the prompt
AskPrompt ==
    /\ pc = "asking"
    /\ qi <= Len(config)
    /\ Decision.prompt
    /\ \E v \in PromptAnswers(config[qi]) :
          answers' = insert(answers, config[qi].key, v)
    /\ prompted' = prompted \cup { config[qi].key }
    /\ visible' = insert(visible, config[qi].key, current_context(answers))
    /\ qi' = qi + 1
    /\ shown' = insert(shown, config[qi].key,
                       help_rendered(config[qi], current_context(answers)))
    /\ UNCHANGED <<pc, config, parsed, consulted>>
    /\ UNCHANGED procVars
    /\ UNCHANGED hookVars
    /\ UNCHANGED runVars

\* one iteration of the loop, the prompt failing: get_context returns Err
PromptFails ==
    /\ pc = "asking"
    /\ qi <= Len(config)
    /\ Decision.prompt
    /\ prompted' = prompted \cup { config[qi].key }
    /\ visible' = insert(visible, config[qi].key, current_context(answers))
    /\ pc' = "failed"
    /\ shown' = insert(shown, config[qi].key,
                       help_rendered(config[qi], current_context(answers)))
    /\ UNCHANGED <<answers, qi, config, parsed, consulted>>
    /\ UNCHANGED procVars
    /\ UNCHANGED hookVars
    /\ UNCHANGED runVars

\* one iteration of the loop, the value coming from get_value_or_default
AskFromParsed ==
    /\ pc = "asking"
    /\ qi <= Len(config)
    /\ ~Decision.prompt
    /\ answers' = insert(answers, config[qi].key, Decision.value)
    /\ visible' = insert(visible, config[qi].key, current_context(answers))
    /\ consulted' = consulted \cup { config[qi].key }
    /\ qi' = qi + 1
    /\ UNCHANGED <<pc, config, parsed, prompted, shown>>
    /\ UNCHANGED procVars
    /\ UNCHANGED hookVars
    /\ UNCHANGED runVars

\* the loop is over: get_context returns Ok(answers)
FinishCtx ==
    /\ pc = "asking"
    /\ qi > Len(config)
    /\ pc' = "done"
    /\ UNCHANGED <<answers, qi, config, parsed, prompted, visible, consulted,
                   shown>>
    /\ UNCHANGED procVars
    /\ UNCHANGED hookVars
    /\ UNCHANGED runVars

NextCtx == AskPrompt \/ PromptFails \/ AskFromParsed \/ FinishCtx

SpecCtx == InitCtx /\ [][NextCtx]_vars

----------------------------------------------------------------------------
(* question.rs: a Question rendered against the answers so far, and the    *)
(* loop of the answer resolution (section 4.1) that asks the questions     *)

is_arr(v) == Head(v) = "arr"

\* an object value: the tag, then keys and values in turn
is_obj(v) == Head(v) = "obj"

JObj(keys_and_values) == <<"obj">> \o keys_and_values

ObjKeys(v) == { v[2 * i] : i \in 1..((Len(v) - 1) \div 2) }

ArrStrings(v) == { v[i] : i \in 2..Len(v) }

get_multiple_choice_default(q) ==
    LET default_value_keys ==
            IF q.default = ABSENT THEN {}
            ELSE IF is_obj(q.default) THEN ObjKeys(q.default)
            ELSE IF is_arr(q.default) THEN ArrStrings(q.default)
            ELSE {}
    IN  JArr([i \in 1..Len(q.choices) |->
                 IF q.choices[i] \in default_value_keys THEN "true" ELSE "false"])

render_default_value(q, ans) ==
    CASE question_type(q) = "MultipleChoice" -> get_multiple_choice_default(q)
      [] question_type(q) = "SingleChoice" -> get_single_choice_default(q)
      [] question_type(q) = "Text" -> get_text_default(q, ans)
      [] question_type(q) = "YesNo" -> get_yes_no_default(q)

\* expressions that do not compile
BadExprs == { <<"bad(">> }

\* the engine evaluating an ask_if expression to a boolean: the empty
\* expression always asks, a variable is tested for truth (undefined is false)
execute_expression(expr, ctx) ==
    IF expr = <<>> THEN [ok |-> TRUE, v |-> TRUE]
    ELSE IF expr \in BadExprs THEN [ok |-> FALSE, v |-> FALSE]
    ELSE [ok |-> TRUE, v |-> IsTrue(ctx, expr[1])]

\* a variant that asks whatever ask_if evaluates to
render_always_ask(q, ans) ==
    [default |-> render_default_value(q, ans),
     help |-> LET r == Render(q.help, ans) IN IF r.ok THEN r.s ELSE q.ask_if,
     ask_if |-> TRUE]

\* a variant that skips the question whose ask_if does not evaluate
render_skip_on_error(q, ans) ==
    [default |-> render_default_value(q, ans),
     help |-> LET r == Render(q.help, ans) IN IF r.ok THEN r.s ELSE q.ask_if,
     ask_if |-> LET e == execute_expression(q.ask_if, ans)
                IN  IF e.ok THEN e.v ELSE FALSE]

\* QuestionRenderer::render -> RenderedQuestion
render(q, ans) ==
    [default |-> render_default_value(q, ans),
     help |-> LET r == Render(q.help, ans) IN IF r.ok THEN r.s ELSE q.ask_if,
     ask_if |-> LET e == execute_expression(q.ask_if, ans)
                IN  IF e.ok THEN e.v ELSE TRUE]

Question(item, ask_if) == [ask_if |-> ask_if] @@ item

QuestionPool ==
    { Question(Item("file_name", "str", h, <<>>, FALSE, d), a) :
        h \in { <<"name?">> },
        d \in { ABSENT, JStr(<<"{{greetings}}">>) },
        a \in { <<>>, <<"create_dir">>, <<"bad(">> } }
    \cup { Question(Item("greetings", "str", <<"{%bad">>, <<"Hi", "Yo">>, m, d), a) :
        m \in BOOLEAN,
        d \in { ABSENT, JArr(<<"Yo">>), JStr(<<"Yo">>) },
        a \in { <<>>, <<"create_dir">> } }
    \cup { Question(Item("greetings", "str", <<"greet?">>, <<"Hi", "Yo">>, TRUE,
                          JObj(<<"Hi", "true", "Yo", "false">>)),
                     <<"create_dir">>) }
    \cup { Question(Item("create_dir", "bool", <<"dir?">>, <<>>, FALSE, d), a) :
        d \in { ABSENT, JBool(TRUE) },
        a \in { <<>>, <<"greetings">> } }
    \cup { Question(Item("license", "str", <<"license?">>, <<>>, FALSE, d), a) :
        d \in { ABSENT },
        a \in { <<"create_dir">> } }

RECURSIVE QuestionsOfLen(_)
QuestionsOfLen(n) ==
    IF n = 0 THEN { <<>> }
    ELSE UNION { { Append(c, q) :
                     q \in { i \in QuestionPool : DistinctKeys(Append(c, i)) } } :
                 c \in QuestionsOfLen(n - 1) }

QuestionSets == UNION { QuestionsOfLen(n) : n \in 1..MaxQuestions }

InitAsk ==
    /\ pc = "asking"
    /\ config \in QuestionSets
    /\ parsed \in ParsedValues
    /\ answers = <<>>
    /\ qi = 1
    /\ visible = <<>>
    /\ prompted = {}
    /\ consulted = {}
    /\ shown = <<>>
    /\ NoProcessing
    /\ NoRun
    /\ NoHook

\* step 1 and 2: the question the loop is at, rendered against the answers
Rendered == render(config[qi], answers)

\* step 3: the key looked up in the pre-supplied answers
SourceLookup == ValueGet(parsed, config[qi].key)

\* step 2: ask_if is false, the value is the resolved default
AskSkipped ==
    /\ pc = "asking"
    /\ qi <= Len(config)
    /\ ~Rendered.ask_if
    /\ answers' = insert(answers, config[qi].key, Rendered.default)
    /\ visible' = insert(visible, config[qi].key, answers)
    /\ qi' = qi + 1
    /\ UNCHANGED <<pc, config, parsed, prompted, consulted, shown>>
    /\ UNCHANGED procVars
    /\ UNCHANGED hookVars
    /\ UNCHANGED runVars

\* step 3: a source has the key, its value is used verbatim
AskFromSource ==
    /\ pc = "asking"
    /\ qi <= Len(config)
    /\ Rendered.ask_if
    /\ SourceLookup.some
    /\ answers' = insert(answers, config[qi].key, SourceLookup.v)
    /\ visible' = insert(visible, config[qi].key, answers)
    /\ consulted' = consulted \cup { config[qi].key }
    /\ qi' = qi + 1
    /\ UNCHANGED <<pc, config, parsed, prompted, shown>>
    /\ UNCHANGED procVars
    /\ UNCHANGED hookVars
    /\ UNCHANGED runVars

\* step 5: no source has the key, the prompt of the question type is shown
AskInteractive ==
    /\ pc = "asking"
    /\ qi <= Len(config)
    /\ Rendered.ask_if
    /\ ~SourceLookup.some
    /\ \E v \in PromptAnswers(config[qi]) :
          answers' = insert(answers, config[qi].key, v)
    /\ visible' = insert(visible, config[qi].key, answers)
    /\ consulted' = consulted \cup { config[qi].key }
    /\ prompted' = prompted \cup { config[qi].key }
    /\ shown' = insert(shown, config[qi].key, Rendered.help)
    /\ qi' = qi + 1
    /\ UNCHANGED <<pc, config, parsed>>
    /\ UNCHANGED procVars
    /\ UNCHANGED hookVars
    /\ UNCHANGED runVars

\* step 5, the prompt failing: the resolution ends with an error
AskInteractiveFails ==
    /\ pc = "asking"
    /\ qi <= Len(config)
    /\ Rendered.ask_if
    /\ ~SourceLookup.some
    /\ visible' = insert(visible, config[qi].key, answers)
    /\ consulted' = consulted \cup { config[qi].key }
    /\ prompted' = prompted \cup { config[qi].key }
    /\ shown' = insert(shown, config[qi].key, Rendered.help)
    /\ pc' = "failed"
    /\ UNCHANGED <<answers, qi, config, parsed>>
    /\ UNCHANGED procVars
    /\ UNCHANGED hookVars
    /\ UNCHANGED runVars

FinishAsk ==
    /\ pc = "asking"
    /\ qi > Len(config)
    /\ pc' = "done"
    /\ UNCHANGED <<answers, qi, config, parsed, prompted, visible, consulted,
                   shown>>
    /\ UNCHANGED procVars
    /\ UNCHANGED hookVars
    /\ UNCHANGED runVars

NextAsk ==
    AskSkipped \/ AskFromSource \/ AskInteractive \/ AskInteractiveFails
        \/ FinishAsk

SpecAsk == InitAsk /\ [][NextAsk]_vars

----------------------------------------------------------------------------
(* processor.rs: process_template_entry, which decides on an entry and     *)
(* carries the decision out on the output tree                             *)

\* the dots of a token
Dots(tok) ==
    IF tok \in {".txt", ".baker", ".j2"} THEN 1
    ELSE IF tok = PARENT THEN 2
    ELSE 0

RECURSIVE DotCount(_)
DotCount(name) ==
    IF name = <<>> THEN 0 ELSE Dots(Head(name)) + DotCount(Tail(name))

\* processor.rs is_template_file: split('.') gives more than two parts and
\* the last part is "j2"
processor_is_template_file(filename) ==
    /\ DotCount(filename) + 1 > 2
    /\ filename # <<>>
    /\ filename[Len(filename)] = ".j2"

\* a variant that looks at the last segment alone
is_rendered_path_valid_last_only(rendered_path) ==
    Split(rendered_path)[Len(Split(rendered_path))] # <<>>

is_rendered_path_valid(rendered_path) ==
    \A i \in 1..Len(Split(rendered_path)) : Split(rendered_path)[i] # <<>>

\* Path::with_file_name on a path that ends with its file name
WithFileName(p, old_name, new_name) ==
    SubSeq(p, 1, Len(p) - Len(old_name)) \o new_name

resolve_target_path(source_path, output_dir) ==
    LET filename == FileName(source_path)
    IN  IF ~filename.some \/ ~processor_is_template_file(filename.name)
        THEN [target |-> PathJoin(output_dir, source_path),
              needs_processing |-> FALSE]
        ELSE [target |-> PathJoin(output_dir,
                             WithFileName(source_path, filename.name,
                                 StripSuffixOrSelf(filename.name, <<".j2">>))),
              needs_processing |-> TRUE]

Prefixes(c) == { SubSeq(c, 1, k) : k \in 1..Len(c) }

Parent(c) == SubSeq(c, 1, Len(c) - 1)

\* Path::is_dir()
IsDir(fs, p) ==
    LET w == Walk(fs, Components(p), <<>>)
    IN  w.ok /\ (w.at = <<>> \/ fs[w.at].kind = "dir")

\* fs::create_dir_all: fails on a file in the way, else adds what is missing
create_dir_all(fs, c) ==
    IF \E q \in Prefixes(c) : q \in DOMAIN fs /\ fs[q].kind = "file"
    THEN [ok |-> FALSE, fs |-> fs]
    ELSE [ok |-> TRUE,
          fs |-> [q \in DOMAIN fs \cup Prefixes(c) |->
                     IF q \in DOMAIN fs THEN fs[q] ELSE Dir]]

\* the parent directories are created, then fs::write
write_file(fs, c, content) ==
    LET made == create_dir_all(fs, Parent(c))
    IN  IF ~made.ok THEN made
        ELSE IF c \in DOMAIN made.fs /\ made.fs[c].kind = "dir"
        THEN [ok |-> FALSE, fs |-> made.fs]
        ELSE [ok |-> TRUE,
              fs |-> [q \in DOMAIN made.fs \cup {c} |->
                         IF q = c THEN File(content) ELSE made.fs[q]]]

\* a variant that copies without creating the parent directories
copy_file_no_parents(fs, source, c) ==
    IF ~source.is_file THEN [ok |-> FALSE, fs |-> fs]
    ELSE IF c \in DOMAIN fs /\ fs[c].kind = "dir"
    THEN [ok |-> FALSE, fs |-> fs]
    ELSE [ok |-> TRUE,
          fs |-> [q \in DOMAIN fs \cup {c} |->
                     IF q = c THEN File(source.content) ELSE fs[q]]]

\* the parent directories are created, then fs::copy, which wants a file as
\* its source and no directory at its destination
copy_file(fs, source, c) ==
    LET made == create_dir_all(fs, Parent(c))
    IN  IF ~made.ok THEN made
        ELSE IF ~source.is_file THEN [ok |-> FALSE, fs |-> made.fs]
        ELSE IF c \in DOMAIN made.fs /\ made.fs[c].kind = "dir"
        THEN [ok |-> FALSE, fs |-> made.fs]
        ELSE [ok |-> TRUE,
              fs |-> [q \in DOMAIN made.fs \cup {c} |->
                         IF q = c THEN File(source.content) ELSE made.fs[q]]]

\* fs::read_to_string and the rendering of what was read
render_content(e, ans) ==
    IF ~e.is_file THEN [ok |-> FALSE, s |-> <<>>]
    ELSE Render(e.content, ans)

\* confirm is what the user does at the prompt: "yes", "no" or "error"
confirm_file_overwriting(fs, target_path, overwrite, confirm) ==
    IF PathExists(fs, target_path)
    THEN IF overwrite # "none"
         THEN [ok |-> TRUE, confirm |-> overwrite = "true", asked |-> FALSE]
         ELSE IF confirm = "error"
         THEN [ok |-> FALSE, confirm |-> FALSE, asked |-> TRUE]
         ELSE [ok |-> TRUE, confirm |-> confirm = "yes", asked |-> TRUE]
    ELSE [ok |-> TRUE, confirm |-> TRUE, asked |-> FALSE]

Outcome(ret, what, target, asked, fs) ==
    [ret |-> ret, what |-> what, target |-> target, asked |-> asked, fs |-> fs]

process_template_entry(e, ans, ignored_set, overwrite, fs, confirm) ==
    IF is_match(ignored_set, e.path) THEN Outcome("Ok", "ignored", NONE, FALSE, fs)
    ELSE
    LET rendered_path == render_path(e.path, ans) IN
    IF ~rendered_path.ok THEN Outcome("Err", "render", NONE, FALSE, fs)
    ELSE IF ~is_rendered_path_valid(rendered_path.s)
    THEN Outcome("Err", PATH_INVALID, NONE, FALSE, fs)
    ELSE
    LET target_entry == StripPrefix(rendered_path.s, template_root) IN
    IF ~target_entry.ok THEN Outcome("Err", PREFIX_ERROR, NONE, FALSE, fs)
    ELSE
    LET resolved == resolve_target_path(target_entry.p, output_root)
        target_path == resolved.target
        c == Components(target_path)
    IN
    IF IsDir(fs, target_path)
    THEN Outcome("Ok", "directory", target_path, FALSE, fs)
    ELSE IF resolved.needs_processing
    THEN LET content == render_content(e, ans) IN
         IF ~content.ok THEN Outcome("Err", "content", target_path, FALSE, fs)
         ELSE
         LET confirmed == confirm_file_overwriting(fs, target_path, overwrite, confirm)
         IN
         IF ~confirmed.ok THEN Outcome("Err", "prompt", target_path, TRUE, fs)
         ELSE IF ~confirmed.confirm
         THEN Outcome("Ok", "skipped", target_path, confirmed.asked, fs)
         ELSE LET w == write_file(fs, c, content.s)
              IN  Outcome(IF w.ok THEN "Ok" ELSE "Err",
                          IF w.ok THEN "written" ELSE "io",
                          target_path, confirmed.asked, w.fs)
    ELSE LET w == copy_file(fs, e, c)
         IN  Outcome(IF w.ok THEN "Ok" ELSE "Err",
                     IF w.ok THEN "copied" ELSE "io", target_path, FALSE, w.fs)

----------------------------------------------------------------------------
(* hooks.rs and processor.rs get_output_dir *)

\* a variant that makes sure the directory is there when it returns Ok
get_output_dir_creates(fs, output_dir, force) ==
    [ok |-> ~(PathExists(fs, output_dir) /\ ~force),
     path |-> output_dir,
     fs |-> IF PathExists(fs, output_dir) THEN fs
            ELSE create_dir_all(fs, Components(output_dir)).fs]

\* the error when the directory exists and force is not set, else the path
\* as it was given; the file system is only looked at
get_output_dir(fs, output_dir, force) ==
    [ok |-> ~(PathExists(fs, output_dir) /\ ~force),
     path |-> output_dir,
     fs |-> fs]

\* get_hooks
pre_hook == PathJoin(PathJoin(template_root, <<"hooks">>), <<"pre_gen_project">>)

post_hook == PathJoin(PathJoin(template_root, <<"hooks">>), <<"post_gen_project">>)

\* serde_json::Value::Object(answers), the context of the hooks and the walk
ValueObject(map) == [kind |-> "obj", obj |-> map]

\* a variant that names the third key after the answers
Output_answers_key(template_dir, output_dir, context) ==
    [template_dir |-> template_dir, output_dir |-> output_dir,
     answers |-> context]

\* a variant that hands the hook no context
Output_null_context(template_dir, output_dir, context) ==
    [template_dir |-> template_dir, output_dir |-> output_dir,
     context |-> [kind |-> "null", obj |-> <<>>]]

\* struct Output serialized by serde_json::to_vec: one key per field
Output(template_dir, output_dir, context) ==
    [template_dir |-> template_dir, output_dir |-> output_dir,
     context |-> context]

\* how a started hook can end
HookEnds == { "spawn error", "stdin error", "exit 0", "exit 1" }

\* a variant that does not look at the exit status
run_hook_any_status(script_exists, ends) ==
    IF ~script_exists THEN "Ok"
    ELSE IF ends \in { "spawn error", "stdin error" } THEN "IoError"
    ELSE "Ok"

run_hook(script_exists, ends) ==
    IF ~script_exists THEN "Ok"
    ELSE IF ends \in { "spawn error", "stdin error" } THEN "IoError"
    ELSE IF ends # "exit 0" THEN "HookError"
    ELSE "Ok"

----------------------------------------------------------------------------
(* SpecRun: main.rs run, from the output directory check to the post hook  *)

MaxFiles == 2

TFile(path, content) == [path |-> path, is_file |-> TRUE, content |-> content]

TDir(path) == [path |-> path, is_file |-> FALSE, content |-> NONE]

InRoot(name) == PathJoin(template_root, name)

\* the files a template can hold
TemplateFiles ==
    { TFile(InRoot(<<"a", ".txt">>), <<"raw">>),
      TFile(InRoot(<<"a", ".txt", ".j2">>), <<"{{greetings}}">>),
      TFile(InRoot(<<"{%if create_dir%}hello{%endif%}", SEP, "a", ".txt">>),
            <<"raw">>),
      TFile(InRoot(<<"{{file_name}}", ".txt", ".j2">>), <<"{%bad">>),
      TFile(pre_hook, <<"#!">>),
      TFile(post_hook, <<"#!">>) }

ParentPath(p) == JoinSegs(Parent(Split(p)))

\* a is p or a directory above p
IsAtOrAbove(a, p) ==
    LET sa == Split(a)
        sp == Split(p)
    IN  Len(sa) <= Len(sp) /\ SubSeq(sp, 1, Len(sa)) = sa

\* the directories from the template root down to the parent of a file
DirsAbove(f) ==
    { TDir(JoinSegs(SubSeq(Split(f.path), 1, k))) :
        k \in 1..(Len(Split(f.path)) - 1) }

\* config.rs CONFIG_FILES
CONFIG_FILES == << <<"baker.json">>, <<"baker.yml">>, <<"baker.yaml">> >>

ConfigFile == TFile(InRoot(CONFIG_FILES[1]), <<"{}">>)

\* no template at the given path, or a template directory with some files,
\* with or without a configuration file
Templates ==
    { {} } \cup
    { { TDir(template_root) } \cup fs \cup c \cup UNION { DirsAbove(f) : f \in fs } :
        fs \in { x \in SUBSET TemplateFiles : Cardinality(x) <= MaxFiles },
        c \in { {}, { ConfigFile } } }

ArgsPool ==
    [force : BOOLEAN, overwrite : {"none", "true", "false"},
     skip_hooks_check : BOOLEAN]

RunAnswers ==
    { <<>>,
      ("file_name" :> JStr(<<"a">>)) @@ ("greetings" :> JStr(<<"Hi">>))
          @@ ("create_dir" :> JBool(TRUE)) }

\* the pattern sets of the ignore files of the templates above: none, and
\* one with a comment and a line that reads like the negation of a default
RunUserPatterns ==
    { file_patterns(f) :
        f \in { NoIgnoreFile, IgnoreFile(<< <<"#", "x">>, <<"!hooks">> >>) } }

RunOutputTrees ==
    { <<>>,
      <<Seg("o")>> :> Dir,
      (<<Seg("o")>> :> Dir) @@ (<<Seg("o"), <<"a", ".txt">> >> :> File(<<"old">>)) }

InitRun ==
    /\ pc = "start"
    /\ args \in ArgsPool
    /\ tmpl \in Templates
    /\ todo = tmpl
    /\ log = <<>>
    /\ execute_hooks = FALSE
    /\ hook_log = <<>>
    /\ out_fs \in RunOutputTrees
    /\ fs0 = out_fs
    /\ answers = <<>>
    /\ bakerignore = {}
    /\ entry = NoEntry
    /\ result = NoResult
    /\ NoQuestions
    /\ NoHook

InTemplate(p) == \E e \in tmpl : e.path = p

\* LocalLoader::load: the template path has to exist
loader_load(t) == [ok |-> t # {}]

\* a variant that finds a configuration in every template
load_config_any(t, config_files) == [ok |-> TRUE]

\* load_config: the first of the configuration files that exists is read
load_config(t, config_files) ==
    [ok |-> \E i \in 1..Len(config_files) :
               \E e \in t : e.path = InRoot(config_files[i])]

\* a step of run before the walk that fails: run returns the error
Abort ==
    /\ pc' = "failed"
    /\ UNCHANGED <<args, tmpl, todo, log, execute_hooks, hook_log, fs0>>
    /\ UNCHANGED <<out_fs, answers, bakerignore, entry, result>>
    /\ UNCHANGED ctxVars
    /\ UNCHANGED hookVars

EnsureOutputDir ==
    /\ pc = "start"
    /\ get_output_dir(out_fs, output_root, args.force).ok
    /\ out_fs' = get_output_dir(out_fs, output_root, args.force).fs
    /\ pc' = "load"
    /\ UNCHANGED <<args, tmpl, todo, log, execute_hooks, hook_log, fs0>>
    /\ UNCHANGED <<answers, bakerignore, entry, result>>
    /\ UNCHANGED ctxVars
    /\ UNCHANGED hookVars

EnsureOutputDirFails ==
    /\ pc = "start"
    /\ ~get_output_dir(out_fs, output_root, args.force).ok
    /\ out_fs' = get_output_dir(out_fs, output_root, args.force).fs
    /\ pc' = "failed"
    /\ UNCHANGED <<args, tmpl, todo, log, execute_hooks, hook_log, fs0>>
    /\ UNCHANGED <<answers, bakerignore, entry, result>>
    /\ UNCHANGED ctxVars
    /\ UNCHANGED hookVars

\* loader.load and load_config succeed
LoadTemplate ==
    /\ pc = "load"
    /\ loader_load(tmpl).ok
    /\ load_config(tmpl, CONFIG_FILES).ok
    /\ pc' = "confirm"
    /\ UNCHANGED <<args, tmpl, todo, log, execute_hooks, hook_log, fs0>>
    /\ UNCHANGED <<out_fs, answers, bakerignore, entry, result>>
    /\ UNCHANGED ctxVars
    /\ UNCHANGED hookVars

\* the template cannot be loaded or has no configuration file
LoadTemplateFails ==
    /\ pc = "load"
    /\ ~loader_load(tmpl).ok \/ ~load_config(tmpl, CONFIG_FILES).ok
    /\ Abort

\* prompt_confirm_hooks_execution, asked when a hook exists
ConfirmHooks ==
    /\ pc = "confirm"
    /\ IF InTemplate(pre_hook) \/ InTemplate(post_hook)
       THEN IF args.skip_hooks_check THEN execute_hooks' = TRUE
            ELSE execute_hooks' \in BOOLEAN
       ELSE execute_hooks' = FALSE
    /\ pc' = "resolve"
    /\ UNCHANGED <<args, tmpl, todo, log, hook_log, fs0>>
    /\ UNCHANGED <<out_fs, answers, bakerignore, entry, result>>
    /\ UNCHANGED ctxVars
    /\ UNCHANGED hookVars

\* the confirmation prompt fails
ConfirmHooksFails ==
    /\ pc = "confirm"
    /\ InTemplate(pre_hook) \/ InTemplate(post_hook)
    /\ ~args.skip_hooks_check
    /\ Abort

\* the question loop ends with an answer context, the ignore file is parsed
ResolveAnswers ==
    /\ pc = "resolve"
    /\ answers' \in RunAnswers
    /\ \E u \in RunUserPatterns :
          bakerignore' = parse_bakerignore_file(template_root, u)
    /\ pc' = "pre_hook"
    /\ UNCHANGED <<args, tmpl, todo, log, execute_hooks, hook_log, fs0>>
    /\ UNCHANGED <<out_fs, entry, result>>
    /\ UNCHANGED ctxVars
    /\ UNCHANGED hookVars

\* --context is no JSON, a prompt fails or a pattern does not compile
ResolveAnswersFails ==
    /\ pc = "resolve"
    /\ Abort

\* a hook that was started: how it ended, what run_hook returned, the document
\* on its standard input, and where the walk was when it started
HookRecord(hook, ends, ret, stdin) ==
    [hook |-> hook, ends |-> ends, ret |-> ret, stdin |-> stdin,
     at |-> Len(log), left |-> todo]

\* the pre-generation hook: skipped, or started and waited for
PreHook ==
    /\ pc = "pre_hook"
    /\ IF execute_hooks /\ InTemplate(pre_hook)
       THEN \E ends \in HookEnds :
               LET ret == run_hook(InTemplate(pre_hook), ends)
                   stdin == Output(template_root, output_root,
                                   ValueObject(answers))
               IN  /\ hook_log' = Append(hook_log,
                                         HookRecord("pre", ends, ret, stdin))
                   /\ pc' = IF ret = "Ok" THEN "walk" ELSE "failed"
       ELSE /\ hook_log' = hook_log
            /\ pc' = "walk"
    /\ UNCHANGED <<args, tmpl, todo, log, execute_hooks, fs0>>
    /\ UNCHANGED <<out_fs, answers, bakerignore, entry, result>>
    /\ UNCHANGED ctxVars
    /\ UNCHANGED hookVars

HasTodoChild(d) == \E x \in todo : ParentPath(x.path) = d.path

\* WalkDir: the root first, then depth first, the entries of a directory in
\* the order the file system lists them
NextEntries ==
    IF log = <<>> THEN { e \in todo : e.path = template_root }
    ELSE LET last == log[Len(log)].entry
             open == { d \in tmpl : /\ ~d.is_file
                                    /\ IsAtOrAbove(d.path, last)
                                    /\ HasTodoChild(d) }
         IN  { e \in todo :
                 \E d \in open :
                    /\ ParentPath(e.path) = d.path
                    /\ \A d2 \in open : Len(d2.path) <= Len(d.path) }

\* a variant that returns the error of an entry from run, as `?` would
after_entry_propagate(ret) == IF ret = "Err" THEN "failed" ELSE "walk"

\* `if let Err(e) = process_entry(..)`: the error is logged, the loop goes on
after_entry(ret) == "walk"

LogRecord(e, o, confirm, before, context) ==
    [entry |-> e.path, ret |-> o.ret, what |-> o.what, target |-> o.target,
     asked |-> o.asked, confirm |-> confirm, before |-> before,
     context |-> context]

\* one iteration of the walk: the entry is processed, an error is logged
WalkEntry ==
    /\ pc = "walk"
    /\ \E e \in NextEntries, confirm \in {"yes", "no", "error"} :
          LET context == ValueObject(answers)
              o == process_template_entry(e, context.obj, bakerignore,
                                          args.overwrite, out_fs, confirm)
          IN  /\ o.asked \/ confirm = "no"
              /\ out_fs' = o.fs
              /\ log' = Append(log, LogRecord(e, o, confirm, out_fs, context))
              /\ todo' = todo \ {e}
              /\ pc' = after_entry(o.ret)
    /\ UNCHANGED <<args, tmpl, execute_hooks, hook_log, fs0>>
    /\ UNCHANGED <<answers, bakerignore, entry, result>>
    /\ UNCHANGED ctxVars
    /\ UNCHANGED hookVars

\* after the walk the post-generation hook: skipped, or started and waited for
PostHook ==
    /\ pc = "walk"
    /\ todo = {}
    /\ IF execute_hooks /\ InTemplate(post_hook)
       THEN \E ends \in HookEnds :
               LET ret == run_hook(InTemplate(post_hook), ends)
                   stdin == Output(template_root, output_root,
                                   ValueObject(answers))
               IN  /\ hook_log' = Append(hook_log,
                                         HookRecord("post", ends, ret, stdin))
                   /\ pc' = IF ret = "Ok" THEN "done" ELSE "failed"
       ELSE /\ hook_log' = hook_log
            /\ pc' = "done"
    /\ UNCHANGED <<args, tmpl, todo, log, execute_hooks, fs0>>
    /\ UNCHANGED <<out_fs, answers, bakerignore, entry, result>>
    /\ UNCHANGED ctxVars
    /\ UNCHANGED hookVars

NextRun ==
    \/ EnsureOutputDir \/ EnsureOutputDirFails
    \/ LoadTemplate \/ LoadTemplateFails
    \/ ConfirmHooks \/ ConfirmHooksFails
    \/ ResolveAnswers \/ ResolveAnswersFails
    \/ PreHook \/ WalkEntry \/ PostHook

SpecRun == InitRun /\ [][NextRun]_vars

----------------------------------------------------------------------------
(* SpecWalk: the walk of run over the template, each entry decided by      *)
(* TemplateProcessor::process against the output tree as it is then, and   *)
(* the operation carried out before the next entry is decided              *)

\* the files of the templates that are walked
WalkFiles ==
    { TFile(InRoot(<<"a", ".txt">>), <<"raw">>),
      TFile(InRoot(<<"{{file_name}}", ".txt">>), <<"other">>),
      TFile(InRoot(<<"a", ".txt", ".baker", ".j2">>), <<"{{greetings}}">>),
      TFile(InRoot(<<"d", SEP, "a", ".txt">>), <<"raw">>) }

WalkTemplates ==
    { { TDir(template_root) } \cup fs \cup UNION { DirsAbove(f) : f \in fs } :
        fs \in { x \in SUBSET WalkFiles : Cardinality(x) <= MaxFiles } }

WalkAnswers ==
    { <<>>,
      ("file_name" :> JStr(<<"a">>)) @@ ("greetings" :> JStr(<<"Hi">>)),
      ("file_name" :> JStr(<<"d", SEP, "a">>)) }

\* the entry of the walked template at a path
EntryAt(p) == CHOOSE e \in tmpl : e.path = p

\* the conflict policy: the flag when it is set, else the answer at the prompt
resolve_conflict(overwrite, confirm) ==
    IF overwrite # "none" THEN overwrite = "true" ELSE confirm = "yes"

\* the execution of an operation on the output tree; an error of the file
\* system leaves the tree as far as it got
execute(op, e, fs, overwrite, confirm) ==
    IF op.kind = "CreateDirectory"
    THEN create_dir_all(fs, Components(op.target)).fs
    ELSE IF op.kind \in {"Copy", "Write"}
              /\ op.target_exists /\ ~resolve_conflict(overwrite, confirm)
    THEN fs
    ELSE IF op.kind = "Copy" THEN copy_file(fs, e, Components(op.target)).fs
    ELSE IF op.kind = "Write"
    THEN write_file(fs, Components(op.target), op.content).fs
    ELSE fs

WalkRecord(e, op, confirm, before) ==
    [entry |-> e.path, op |-> op, confirm |-> confirm, before |-> before]

InitWalk ==
    /\ pc = "walking"
    /\ args \in { a \in ArgsPool : a.force /\ ~a.skip_hooks_check }
    /\ tmpl \in WalkTemplates
    /\ todo = tmpl
    /\ log = <<>>
    /\ execute_hooks = FALSE
    /\ hook_log = <<>>
    /\ out_fs \in RunOutputTrees
    /\ fs0 = out_fs
    /\ answers \in WalkAnswers
    /\ bakerignore = parse_bakerignore_file(template_root, {})
    /\ entry = NoEntry
    /\ result = NoResult
    /\ NoQuestions
    /\ NoHook

\* one iteration of the walk: the entry is decided, the operation executed
DecideAndExecute ==
    /\ pc = "walking"
    /\ \E e \in NextEntries, confirm \in {"yes", "no"} :
          LET op == process(e, answers, bakerignore, out_fs)
              asks == /\ op.kind \in {"Copy", "Write"}
                      /\ op.target_exists
                      /\ args.overwrite = "none"
          IN  /\ asks \/ confirm = "no"
              /\ out_fs' = execute(op, e, out_fs, args.overwrite, confirm)
              /\ log' = Append(log, WalkRecord(e, op, confirm, out_fs))
              /\ todo' = todo \ {e}
              /\ result' = op
    /\ UNCHANGED <<pc, args, tmpl, execute_hooks, hook_log, fs0>>
    /\ UNCHANGED <<answers, bakerignore, entry>>
    /\ UNCHANGED ctxVars
    /\ UNCHANGED hookVars

\* the walk has reached every entry
FinishWalk ==
    /\ pc = "walking"
    /\ todo = {}
    /\ pc' = "walked"
    /\ UNCHANGED <<args, tmpl, todo, log, execute_hooks, hook_log, fs0>>
    /\ UNCHANGED <<out_fs, answers, bakerignore, entry, result>>
    /\ UNCHANGED ctxVars
    /\ UNCHANGED hookVars

NextWalk == DecideAndExecute \/ FinishWalk

SpecWalk == InitWalk /\ [][NextWalk]_vars

----------------------------------------------------------------------------
(* SpecHook: one call of run_hook (hooks.rs) with the hook process it      *)
(* spawns.  The parent and the hook are two processes; the standard input  *)
(* of the hook is a pipe of bounded capacity, its standard output and      *)
(* error are inherited and are not read by the parent.                     *)

\* the largest serialized document, in bytes
MaxPayload == 4

\* the number of bytes the pipe holds before a write blocks
PipeCapacity == 2

\* serde_json::to_vec(&output): the bytes of the document, numbered
to_vec(n) == [i \in 1..n |-> i]

\* what is at script_path: nothing, a hook that reads its input to the end
\* before it exits, or a hook that may exit (or stall) before the end
HookScripts == { "missing", "reads_all", "reads_some" }

InitHook ==
    /\ pc = "run_hook"
    /\ output_data \in { to_vec(n) : n \in 1..MaxPayload }
    /\ child \in { [state |-> "none", script |-> s, input |-> <<>>,
                    eof |-> FALSE, status |-> -1] : s \in HookScripts }
    /\ child_stdin = [state |-> "none"]
    /\ result = NoResult
    /\ entry = NONE
    /\ answers = <<>>
    /\ bakerignore = {}
    /\ out_fs = <<>>
    /\ NoQuestions
    /\ NoRun

\* the other variables, which run_hook and the hook leave alone
notHook == <<entry, answers, bakerignore, out_fs, config, parsed, qi, visible,
             prompted, consulted, shown, args, tmpl, todo, log,
             execute_hooks, hook_log, fs0>>

Returned(value) == [kind |-> value]

\* if !script_path.exists() { return Ok(()) }, then Command::spawn with
\* stdin piped, stdout and stderr inherited
Spawn ==
    /\ pc = "run_hook"
    /\ IF child.script = "missing"
       THEN /\ pc' = "returned"
            /\ result' = Returned("Ok")
            /\ UNCHANGED <<child, child_stdin>>
       ELSE \E spawned \in BOOLEAN :
               IF spawned
               THEN /\ pc' = "write_all"
                    /\ child' = [child EXCEPT !.state = "running"]
                    /\ child_stdin' = [state |-> "pipe", writer |-> "open",
                                       reader |-> "open", buf |-> <<>>,
                                       written |-> 0]
                    /\ result' = result
               ELSE /\ pc' = "returned"
                    /\ result' = Returned("IoError")
                    /\ UNCHANGED <<child, child_stdin>>
    /\ UNCHANGED <<output_data, notHook>>

\* stdin.write_all(&output_data): bytes pass into the pipe while it has room
\* and the hook holds the read end; with a full pipe the write blocks
Write ==
    /\ pc = "write_all"
    /\ child_stdin.written < Len(output_data)
    /\ child_stdin.reader = "open"
    /\ Len(child_stdin.buf) < PipeCapacity
    /\ \E k \in 1..Min(PipeCapacity - Len(child_stdin.buf),
                       Len(output_data) - child_stdin.written) :
          child_stdin' =
              [child_stdin EXCEPT
                 !.buf = @ \o SubSeq(output_data, child_stdin.written + 1,
                                     child_stdin.written + k),
                 !.written = @ + k]
    /\ UNCHANGED <<pc, child, result, output_data, notHook>>

\* write_all on a pipe whose read end is closed: the error is returned with
\* `?`, which drops stdin on the way out
WriteFails ==
    /\ pc = "write_all"
    /\ child_stdin.written < Len(output_data)
    /\ child_stdin.reader = "closed"
    /\ child_stdin' = [child_stdin EXCEPT !.writer = "closed"]
    /\ pc' = "returned"
    /\ result' = Returned("IoError")
    /\ UNCHANGED <<child, output_data, notHook>>

\* a variant that keeps stdin open while it waits for the hook
KeepStdin ==
    /\ pc = "write_all"
    /\ child_stdin.written = Len(output_data)
    /\ pc' = "wait"
    /\ UNCHANGED <<child, child_stdin, result, output_data, notHook>>

\* the end of the `if let Some(mut stdin) = child.stdin.take()` block: stdin
\* goes out of scope, which closes the write end of the pipe
DropStdin ==
    /\ pc = "write_all"
    /\ child_stdin.written = Len(output_data)
    /\ child_stdin' = [child_stdin EXCEPT !.writer = "closed"]
    /\ pc' = "wait"
    /\ UNCHANGED <<child, result, output_data, notHook>>

\* child.wait(), which blocks until the hook has exited, then the status
Wait ==
    /\ pc = "wait"
    /\ child.state = "exited"
    /\ child' = [child EXCEPT !.state = "reaped"]
    /\ result' = Returned(IF child.status = 0 THEN "Ok" ELSE "HookError")
    /\ pc' = "returned"
    /\ UNCHANGED <<child_stdin, output_data, notHook>>

\* the hook reads some of the bytes that are in the pipe
HookReads ==
    /\ child.state = "running"
    /\ ~child.eof
    /\ child_stdin.buf # <<>>
    /\ \E k \in 1..Len(child_stdin.buf) :
          /\ child' = [child EXCEPT
                         !.input = @ \o SubSeq(child_stdin.buf, 1, k)]
          /\ child_stdin' =
                 [child_stdin EXCEPT
                    !.buf = SubSeq(@, k + 1, Len(@))]
    /\ UNCHANGED <<pc, result, output_data, notHook>>

\* a read of the empty pipe returns end of input once the write end is closed;
\* while the write end is open the read blocks
HookSeesEof ==
    /\ child.state = "running"
    /\ ~child.eof
    /\ child_stdin.buf = <<>>
    /\ child_stdin.writer = "closed"
    /\ child' = [child EXCEPT !.eof = TRUE]
    /\ UNCHANGED <<pc, child_stdin, result, output_data, notHook>>

\* the hook exits, which closes its end of the pipe; a hook that reads all of
\* its input exits after it has seen the end of it
HookExits ==
    /\ child.state = "running"
    /\ child.script = "reads_all" => child.eof
    /\ \E status \in { 0, 1 } :
          child' = [child EXCEPT !.state = "exited", !.status = status]
    /\ child_stdin' = [child_stdin EXCEPT !.reader = "closed", !.buf = <<>>]
    /\ UNCHANGED <<pc, result, output_data, notHook>>

\* the steps of run_hook
RunHookStep == Spawn \/ Write \/ WriteFails \/ DropStdin \/ Wait

\* the steps of the hook process
HookStep == HookReads \/ HookSeesEof \/ HookExits

NextHook == RunHookStep \/ HookStep

\* the system runs a process that can take a step; only a hook that reads
\* all of its input is known to go on until it has exited
SpecHook ==
    /\ InitHook
    /\ [][NextHook]_vars
    /\ WF_vars(RunHookStep)
    /\ WF_vars(HookStep /\ child.script = "reads_all")

----------------------------------------------------------------------------
(* Properties of the walk (SpecWalk) *)

\* the operation process computes for the entry of record i against the
\* output tree as it was before the walk
DecidedUpFront(i) == process(EntryAt(log[i].entry), answers, bakerignore, fs0)

\* an entry the walk reached before record i wrote at the target of record i
\* or beneath it
EarlierWroteAtOrBelow(i) ==
    \E j \in 1..(i - 1) :
        /\ log[j].op.kind \in {"Copy", "Write", "CreateDirectory"}
        /\ LET mine == Components(log[i].op.target)
               theirs == Components(log[j].op.target)
           IN  /\ Len(mine) <= Len(theirs)
               /\ SubSeq(theirs, 1, Len(mine)) = mine

----------------------------------------------------------------------------
(* Properties of run (SpecRun) *)

\* the output tree after the walk processed its i-th entry
TreeAfter(i) == IF i < Len(log) THEN log[i + 1].before ELSE out_fs

\* the i-th entry of the walk has a target and a file was there already
TargetFileExisted(i) ==
    /\ log[i].target # NONE
    /\ Components(log[i].target) \in DOMAIN log[i].before
    /\ log[i].before[Components(log[i].target)].kind = "file"

UserConfirmed(i) == log[i].asked /\ log[i].confirm = "yes"

UserDeclined(i) == log[i].asked /\ log[i].confirm = "no"

\* C7: an existing target file is modified only if the overwrite flag is
\* true or the user confirmed the prompt asked for that path; when the flag
\* is false or the user declines, the output tree is left as it was and the
\* entry is not an error
C7_ExistingFileKeptUnlessConfirmed ==
    \A i \in 1..Len(log) :
        TargetFileExisted(i) =>
            /\ TreeAfter(i) # log[i].before
                  => (args.overwrite = "true" \/ UserConfirmed(i))
            /\ (args.overwrite = "false" \/ UserDeclined(i))
                  => (TreeAfter(i) = log[i].before /\ log[i].ret = "Ok")

\* C10: a hook that exits with a non-zero status makes run_hook return the
\* hook error and the run stops there; when it is the pre-generation hook no
\* entry has been processed, the output tree is as it was when the run
\* began and the post-generation hook is not started
C10_FailedHookAbortsRun ==
    \A i \in 1..Len(hook_log) :
        hook_log[i].ends = "exit 1" =>
            /\ hook_log[i].ret = "HookError"
            /\ pc = "failed"
            /\ i = Len(hook_log)
            /\ hook_log[i].hook = "pre" =>
                  /\ log = <<>>
                  /\ todo = tmpl
                  /\ out_fs = fs0
                  /\ \A j \in 1..Len(hook_log) : hook_log[j].hook # "post"

\* the pre hook of a template that also has a post hook exits with 1
C10_Witness ==
    /\ pc = "failed"
    /\ execute_hooks
    /\ InTemplate(post_hook)
    /\ Len(hook_log) = 1
    /\ hook_log[1].hook = "pre"
    /\ hook_log[1].ends = "exit 1"
    /\ hook_log[1].ret = "HookError"
    /\ Cardinality(todo) = 5

\* the steps of run that come before the answers are resolved
BeforeResolution == {"start", "load", "confirm", "resolve"}

\* C11: a hook is started only after the answers are resolved; the
\* pre-generation hook is started and has ended before the first entry of
\* the walk is processed, and the walk starts only after it returned Ok; the
\* post-generation hook is started only when every entry of the template
\* has been processed; both hooks are given on their standard input the
\* answer context that every entry of the walk is processed with
C11_HooksBracketTheWalk ==
    /\ hook_log # <<>> => pc \notin BeforeResolution
    /\ \A i \in 1..Len(hook_log) :
          /\ hook_log[i].stdin.context.kind = "obj"
          /\ hook_log[i].stdin.context.obj = answers
          /\ hook_log[i].hook = "pre" =>
                /\ i = 1
                /\ hook_log[i].at = 0
                /\ hook_log[i].left = tmpl
          /\ hook_log[i].hook = "post" =>
                /\ i = Len(hook_log)
                /\ hook_log[i].left = {}
                /\ hook_log[i].at = Cardinality(tmpl)
                /\ Len(log) = Cardinality(tmpl)
    /\ (log # <<>> /\ execute_hooks /\ InTemplate(pre_hook)) =>
          /\ hook_log # <<>>
          /\ hook_log[1].hook = "pre"
          /\ hook_log[1].ret = "Ok"
    /\ \A j \in 1..Len(log) :
          /\ log[j].context.kind = "obj"
          /\ log[j].context.obj = answers

\* a finished run of a template with both hooks: the pre hook ran before
\* the five entries of the walk, the post hook after them, both with the
\* resolved answers
C11_Witness ==
    /\ pc = "done"
    /\ Len(hook_log) = 2
    /\ hook_log[1].hook = "pre"
    /\ hook_log[2].hook = "post"
    /\ hook_log[2].at = 5
    /\ Len(log) = 5
    /\ "greetings" \in DOMAIN answers
    /\ hook_log[1].stdin.context.obj = answers

SomeEntryFailed == \E i \in 1..Len(log) : log[i].ret = "Err"

LastHook == hook_log[Len(hook_log)]

\* C12: after an entry of the walk failed the run does not stop: no entry is
\* dropped, the walk has a next entry as long as one is left, the run ends
\* only when every entry has been processed, the post-generation hook is
\* run after the walk as in a run without failures, and the run ends with
\* an error only if that hook returned one
C12_EntryFailureIsCaught ==
    SomeEntryFailed =>
        /\ pc \in {"walk", "done", "failed"}
        /\ Len(log) + Cardinality(todo) = Cardinality(tmpl)
        /\ (pc = "walk" /\ todo # {}) => NextEntries # {}
        /\ pc = "done" =>
              /\ todo = {}
              /\ (execute_hooks /\ InTemplate(post_hook)) =>
                    /\ hook_log # <<>>
                    /\ LastHook.hook = "post"
                    /\ LastHook.ret = "Ok"
        /\ pc = "failed" =>
              /\ todo = {}
              /\ hook_log # <<>>
              /\ LastHook.hook = "post"
              /\ LastHook.ret # "Ok"

\* a finished run in which the content of a template file did not render,
\* entries were processed after it and the post hook ran
C12_Witness ==
    /\ pc = "done"
    /\ \E i \in 1..Len(log) :
          /\ log[i].what = "content"
          /\ log[i].ret = "Err"
          /\ i < Len(log)
    /\ hook_log # <<>>
    /\ LastHook.hook = "post"
    /\ LastHook.ret = "Ok"

\* the three setup failures, read off the inputs of the run
OutputDirRefused == PathExists(fs0, output_root) /\ ~args.force

TemplateMissing == tmpl = {}

ConfigFound ==
    \E i \in 1..Len(CONFIG_FILES) : InTemplate(InRoot(CONFIG_FILES[i]))

\* C13: when the output directory exists and force is not set, or the
\* template does not exist, or the template has no configuration file, the
\* run gets no further than the failing step and ends with the error; the
\* output tree is what it was when the run began, no hook was started, no
\* entry was processed
C13_SetupFailureLeavesNothing ==
    (OutputDirRefused \/ TemplateMissing \/ ~ConfigFound) =>
        /\ pc \in {"start", "load", "failed"}
        /\ pc = "load" => ~OutputDirRefused
        /\ out_fs = fs0
        /\ hook_log = <<>>
        /\ log = <<>>
        /\ ~execute_hooks

\* a run over an existing output directory with force, failed for the
\* missing configuration file of a template that has a pre hook
C13_Witness ==
    /\ pc = "failed"
    /\ PathExists(fs0, output_root)
    /\ args.force
    /\ ~TemplateMissing
    /\ ~ConfigFound
    /\ InTemplate(pre_hook)
    /\ out_fs = fs0
    /\ hook_log = <<>>

\* every directory above the path c is a directory of the tree
AncestorsExist(fs, c) ==
    \A k \in 1..(Len(c) - 1) :
        /\ SubSeq(c, 1, k) \in DOMAIN fs
        /\ fs[SubSeq(c, 1, k)].kind = "dir"

\* the i-th entry of the walk ended in an operation on its target
Executed(i) == log[i].what \in {"copied", "written", "directory"}

\* C14: when an entry of the walk has copied or written its target, or
\* found its target directory, every directory above the target is in the
\* output tree the operation leaves behind, and nothing in the output tree
\* is ever without its parent directories, whatever the order of the walk
C14_AncestorsExistWhenOperationActs ==
    /\ \A i \in 1..Len(log) :
          Executed(i) =>
              /\ Components(log[i].target) \in DOMAIN TreeAfter(i)
              /\ AncestorsExist(TreeAfter(i), Components(log[i].target))
    /\ \A c \in DOMAIN out_fs : AncestorsExist(out_fs, c)

\* a file copied two levels below an output root that did not exist when the
\* run began
C14_Witness ==
    /\ fs0 = <<>>
    /\ \E i \in 1..Len(log) :
          /\ log[i].what = "copied"
          /\ Len(Components(log[i].target)) = 3
          /\ Parent(Components(log[i].target)) \notin DOMAIN log[i].before

\* paths of a template, some of them matched by a default pattern
ProbePaths ==
    { InRoot(<<".git">>), InRoot(<<".git", SEP, "config">>),
      InRoot(<<".hg">>), InRoot(<<".hg", SEP, "store">>),
      InRoot(<<".svn">>), InRoot(<<".svn", SEP, "entries">>),
      InRoot(<<".DS_Store">>), InRoot(<<"d", SEP, ".DS_Store">>),
      InRoot(<<".bakerignore">>),
      InRoot(<<"hooks">>), pre_hook, post_hook,
      InRoot(<<"baker.yaml">>), InRoot(<<"baker.yml">>), InRoot(<<"baker.json">>),
      InRoot(<<"a", ".txt">>), InRoot(<<"!hooks">>),
      InRoot(<<"d", SEP, "hooks">>), InRoot(<<"d", SEP, "a", ".txt">>) }

\* the path is matched by a default pattern of the template
DefaultMatches(path) ==
    \E pat \in DEFAULT_IGNORE_PATTERNS :
        GlobMatch(Components(template_root) \o pat, Split(path))

\* the ignore set of the run has been compiled
IgnoreSetCompiled == pc \in {"pre_hook", "walk", "done"} \/ hook_log # <<>>

C18_StdinHasAnswersKey ==
    \A i \in 1..Len(hook_log) :
        /\ DOMAIN hook_log[i].stdin = {"template_dir", "output_dir", "answers"}
        /\ \/ hook_log[i].stdin.answers.kind = "null"
           \/ hook_log[i].stdin.answers.obj = answers

\* C18 (amended): the document on a hook's standard input has exactly the
\* keys template_dir, output_dir and context; template_dir and output_dir
\* are the two directories of the run and context is the object of the
\* resolved answers, never null
C18_StdinHasContextKey ==
    \A i \in 1..Len(hook_log) :
        /\ DOMAIN hook_log[i].stdin = {"template_dir", "output_dir", "context"}
        /\ hook_log[i].stdin.template_dir = template_root
        /\ hook_log[i].stdin.output_dir = output_root
        /\ hook_log[i].stdin.context.kind = "obj"
        /\ hook_log[i].stdin.context.obj = answers

\* a post hook that was given two resolved answers
C18_Witness ==
    /\ hook_log # <<>>
    /\ LastHook.hook = "post"
    /\ DOMAIN LastHook.stdin.context.obj = {"file_name", "greetings", "create_dir"}
    /\ LastHook.stdin.context.obj["greetings"] = JStr(<<"Hi">>)

InCollapsedDirectory(path) ==
    \E d \in tmpl :
        /\ ~d.is_file
        /\ IsAtOrAbove(d.path, path)
        /\ LET name == Split(d.path)[Len(Split(d.path))]
           IN  /\ name # <<>>
               /\ Render(name, answers).ok
               /\ Render(name, answers).s = <<>>

\* the paths of the output tree that the walk has added to it
CreatedByWalk == DOMAIN out_fs \ DOMAIN fs0

\* C25: a directory whose name renders to nothing and every entry beneath it
\* end in the error 'The rendered path is not valid', the output tree is the
\* same before and after each of them, and when nothing else is in the
\* template the walk adds nothing to the output tree
C25_CollapsedSubtreeIsNotMaterialized ==
    /\ \A i \in 1..Len(log) :
          InCollapsedDirectory(log[i].entry)
              => /\ log[i].ret = "Err"
                 /\ log[i].what = PATH_INVALID
                 /\ TreeAfter(i) = log[i].before
    /\ (\A e \in tmpl : e.path = template_root \/ InCollapsedDirectory(e.path))
          => CreatedByWalk = {}

\* the walk has been through the collapsed directory and the file in it, and
\* has copied another file meanwhile
C25_Witness ==
    /\ pc = "done"
    /\ "create_dir" \notin DOMAIN answers
    /\ \E i, j, k \in 1..Len(log) :
          /\ InCollapsedDirectory(log[i].entry)
          /\ InCollapsedDirectory(log[j].entry)
          /\ log[i].entry # log[j].entry
          /\ log[k].what = "copied"
    /\ CreatedByWalk # {}

----------------------------------------------------------------------------
(* Properties of get_context (SpecCtx) *)

Keys == { config[j].key : j \in 1..Len(config) }

KeysBefore(j) == { config[i].key : i \in 1..(j - 1) }

KeyIndex(k) == CHOOSE j \in 1..Len(config) : config[j].key = k

\* the answers of the keys that precede question j
AnswersBefore(j) == [k \in KeysBefore(j) |-> answers[k]]

\* C2: the context a key's help and default are rendered with holds exactly
\* the answers of the keys that precede it in question-set order: not the
\* key itself, no later key, and every earlier key
C2_VisibleContextIsPrecedingAnswers ==
    \A k \in DOMAIN visible :
        /\ k \in Keys
        /\ DOMAIN visible[k] = KeysBefore(KeyIndex(k))
        /\ \A x \in DOMAIN visible[k] : visible[k][x] = answers[x]

\* the third question's default refers to an earlier key and gets its answer
C2_Witness ==
    /\ pc = "done"
    /\ Len(config) = 3
    /\ config[3].key = "file_name"
    /\ config[3].default = JStr(<<"{{greetings}}">>)
    /\ Cardinality(DOMAIN visible["file_name"]) = 2
    /\ answers["greetings"] = JStr(<<"Yo">>)
    /\ answers["file_name"] = JStr(<<"Yo">>)

\* C3: while the loop runs the answer context holds exactly the keys of the
\* questions already processed (each key is inserted before the next question
\* is looked at), and after a successful end exactly the keys of the
\* question set, whichever source gave the value
C3_OneEntryPerKey ==
    /\ pc \in {"asking", "done"} => DOMAIN answers = KeysBefore(qi)
    /\ pc = "done" => DOMAIN answers = Keys

\* a finished run with a value from the pre-supplied answers (a null), a
\* default and three keys
C3_Witness ==
    /\ pc = "done"
    /\ Len(config) = 3
    /\ parsed.kind = "obj"
    /\ DOMAIN parsed.obj = {"file_name"}
    /\ answers["file_name"] = JNull
    /\ answers["create_dir"] = JBool(TRUE)
    /\ Cardinality(DOMAIN answers) = 3

Provided(k) == parsed.kind = "obj" /\ k \in DOMAIN parsed.obj

\* the questions the loop has decided on
Decided == { j \in 1..Len(config) : j < qi \/ config[j].key \in prompted }

DefaultPlaces(item) ==
    IF item.default = ABSENT \/ ~is_str(item.default) THEN {}
    ELSE { i - 1 : i \in { n \in 1..Len(item.choices) :
                              <<item.choices[n]>> = Tail(item.default) } }

\* the first place of the default string, 0 when it has none
ExpectedChoice(item) ==
    IF DefaultPlaces(item) = {} THEN 0
    ELSE CHOOSE n \in DefaultPlaces(item) : \A m \in DefaultPlaces(item) : n <= m

\* C28: a single-choice question that takes its default takes the position
\* of the default string in the choices, counted from zero, and 0 when the
\* default is absent, not a string or not among the choices; the value is an
\* index of the choices list
C28_SingleChoiceDefaultIsAnIndex ==
    \A j \in 1..Len(config) :
        (j < qi /\ question_type(config[j]) = "SingleChoice"
             /\ parsed.kind # "null" /\ ~Provided(config[j].key))
            => /\ answers[config[j].key] = JNum(ExpectedChoice(config[j]))
               /\ ExpectedChoice(config[j]) \in 0..(Len(config[j].choices) - 1)

\* a question whose default is the second choice, not among the pre-supplied
\* answers: its value is 1
C28_Witness ==
    /\ pc = "done"
    /\ parsed.kind = "obj"
    /\ Len(config) = 1
    /\ question_type(config[1]) = "SingleChoice"
    /\ config[1].default = JStr(<<"Yo">>)
    /\ ~Provided(config[1].key)
    /\ answers[config[1].key] = JNum(1)

----------------------------------------------------------------------------
(* Properties of the asking loop (SpecAsk) *)

\* the ask_if of question j names a variable that is undefined, false or
\* empty in the answers collected before it
AskIfIsFalse(j) ==
    /\ config[j].ask_if # <<>>
    /\ config[j].ask_if \notin BadExprs
    /\ LET name == config[j].ask_if[1]
       IN  \/ name \notin KeysBefore(j)
           \/ answers[name] \in { JBool(FALSE), JStr(<<>>), JNum(0), JArr(<<>>),
                                  JNull }

AnsweredAsAsked(j) ==
    LET k == config[j].key
    IN  /\ k \in consulted
        /\ Provided(k) =>
              /\ k \notin prompted
              /\ j < qi => answers[k] = parsed.obj[k]
        /\ ~Provided(k) =>
              /\ k \in prompted
              /\ j < qi => answers[k] \in PromptAnswers(config[j])

\* C20: a question whose ask_if does not evaluate is asked, and answered as
\* a question with no ask_if is; the resolution ends with an error only
\* when a prompt fails, never for the ask_if
C20_FailedAskIfMeansAsk ==
    /\ \A j \in Decided :
          /\ config[j].ask_if \in BadExprs => AnsweredAsAsked(j)
          /\ config[j].ask_if = <<>> => AnsweredAsAsked(j)
    /\ pc = "failed" =>
          /\ qi <= Len(config)
          /\ config[qi].key \in prompted

\* a finished resolution: the ask_if of file_name did not evaluate, the
\* question was prompted and a later question was answered after it
C20_Witness ==
    /\ pc = "done"
    /\ Len(config) >= 2
    /\ config[1].key = "file_name"
    /\ config[1].ask_if \in BadExprs
    /\ "file_name" \in prompted
    /\ answers["file_name"] = JStr(<<"typed">>)
    /\ config[2].key \in DOMAIN answers

\* C26: for every question that was prompted for and whose help text does
\* not render against the context it was rendered with, the text of the
\* prompt is the help string of the question as it is in the question set
C26_FailedHelpFallsBackToRawHelp ==
    \A j \in 1..Len(config) :
        (config[j].key \in DOMAIN shown
             /\ ~Render(config[j].help, visible[config[j].key]).ok)
            => shown[config[j].key] = config[j].help

\* question j was skipped and took its resolved default
TookDefault(j) ==
    /\ j < qi
    /\ config[j].key \notin prompted
    /\ config[j].key \notin consulted

\* the label is listed in the default array, or mapped to true in the default
\* object map
SelectedByDefault(q, label) ==
    /\ q.default # ABSENT
    /\ \/ /\ is_arr(q.default)
          /\ \E i \in 2..Len(q.default) : q.default[i] = label
       \/ /\ is_obj(q.default)
          /\ \E i \in 1..((Len(q.default) - 1) \div 2) :
                /\ q.default[2 * i] = label
                /\ q.default[2 * i + 1] = "true"

\* C27: the resolved default of a multi-select question is a list with one
\* boolean per choice, in the order of the choices, true exactly for the
\* choices listed in the default array or mapped to true in the default
\* object map, and all false for an absent default or one of another type
C27_MultiSelectDefaultPerChoice ==
    \A j \in 1..Len(config) :
        (TookDefault(j) /\ question_type(config[j]) = "MultipleChoice")
            => LET v == answers[config[j].key]
                   choices == config[j].choices
               IN  /\ is_arr(v)
                   /\ Len(v) = Len(choices) + 1
                   /\ \A i \in 1..Len(choices) :
                         v[i + 1] = IF SelectedByDefault(config[j], choices[i])
                                    THEN "true" ELSE "false"

----------------------------------------------------------------------------
(* Properties of TemplateProcessor::process (SpecProcess) *)

RenderedPath == render_path(entry.path, answers)

\* some source segment is non-empty and the rendered segment at the same
\* position is empty
HasCollapsedSegment ==
    /\ RenderedPath.ok
    /\ LET tparts == Split(entry.path)
           rparts == Split(RenderedPath.s)
       IN  \E i \in 1..Len(tparts) :
              i <= Len(rparts) /\ tparts[i] # <<>> /\ rparts[i] = <<>>

\* C1: whenever the rendered path of the entry has an empty segment at a
\* position where the source path has a non-empty one, process returns the
\* error 'The rendered path is not valid' and no operation, for files and
\* directories and every answer context
C1_CollapsedSegmentIsRejected ==
    (pc = "processed" /\ HasCollapsedSegment) => result = Err(PATH_INVALID)

C1_Witness ==
    /\ pc = "processed"
    /\ HasCollapsedSegment
    /\ ~entry.is_file
    /\ "create_dir" \in DOMAIN answers
    /\ result = Err(PATH_INVALID)

\* the entry reaches the branch on (is file, is template file): its path
\* renders, no segment collapses and the ignore matcher does not match it
ReachesBranch ==
    /\ RenderedPath.ok
    /\ ~HasCollapsedSegment
    /\ ~is_match(bakerignore, entry.path)

RenderedName == FileName(RenderedPath.s)

RenderedNameIsTemplate ==
    /\ RenderedName.some
    /\ Len(RenderedName.name) >= Len(template_suffix)
    /\ \A i \in 1..Len(template_suffix) :
          RenderedName.name[Len(RenderedName.name) - Len(template_suffix) + i]
              = template_suffix[i]

\* the components of the rendered path below the template root, the last one
\* without its final Len(template_suffix) tokens, below the output root
ExpectedWriteTarget ==
    LET c == Components(RenderedPath.s)
        rel == SubSeq(c, Len(Components(template_root)) + 1, Len(c))
        name == rel[Len(rel)]
        stripped == SubSeq(name, 1, Len(name) - Len(template_suffix))
    IN  NonEmptySegs(Components(output_root)
                         \o SubSeq(rel, 1, Len(rel) - 1) \o <<stripped>>)

C6_IgnoredEntryYieldsIgnore ==
    (pc = "processed" /\ is_match(bakerignore, entry.path))
        => result.kind = "Ignore"

\* C8: no Copy or Write of a file entry has the output root itself as its
\* target, and a file whose rendered name is the template suffix alone is
\* rejected with 'The rendered path is not valid'
C8_NoEmptyNamedTarget ==
    (pc = "processed" /\ entry.is_file)
        => /\ result.kind \in {"Copy", "Write"}
                => Components(result.target) # Components(output_root)
           /\ (ReachesBranch /\ RenderedName.some
                   /\ RenderedName.name = template_suffix)
                => result = Err(PATH_INVALID)

\* the components of the rendered path below the template root, below the
\* output root
ExpectedCopyTarget ==
    LET c == Components(RenderedPath.s)
        rel == SubSeq(c, Len(Components(template_root)) + 1, Len(c))
    IN  NonEmptySegs(Components(output_root) \o rel)

SourceName == Split(entry.path)[Len(Split(entry.path))]

\* the name holds an expression that prints a variable the answers do not
\* define, next to literal text
NameHasUndefinedVariable ==
    /\ \E i \in 1..Len(SourceName) :
          /\ SourceName[i] \in VarTokens
          /\ VarOf(SourceName[i]) \notin DOMAIN answers
    /\ \E i \in 1..Len(SourceName) :
          SourceName[i] \notin (VarTokens \cup CondTokens \cup BadTokens)

\* C21: a file entry that is not ignored and whose name holds, next to
\* literal text, an expression printing an undefined variable yields the
\* error 'The rendered path is not valid', not a Copy to a name made of the
\* literal text alone
C21_PartlyEmptyNameIsRejected ==
    (pc = "processed" /\ entry.is_file /\ RenderedPath.ok
         /\ ~is_match(bakerignore, entry.path) /\ NameHasUndefinedVariable)
        => result = Err(PATH_INVALID)

\* C23: in every Copy, Write and CreateDirectory that process returns,
\* target_exists is true exactly when the path in the target field of the
\* same operation exists in the output tree at decision time
C23_TargetExistsIsAboutTarget ==
    (pc = "processed" /\ result.kind \in {"Copy", "Write", "CreateDirectory"})
        => (result.target_exists <=> PathExists(out_fs, result.target))

\* how deep below the output root a sequence of components ends, a parent
\* directory component going one up; -1 from where it has left the root
RECURSIVE DepthBelow(_, _)
DepthBelow(comps, depth) ==
    IF depth < 0 \/ comps = <<>> THEN depth
    ELSE IF Head(comps) = <<PARENT>> THEN DepthBelow(Tail(comps), depth - 1)
    ELSE DepthBelow(Tail(comps), depth + 1)

\* the path is the output root or resolves to a place below it
InsideOutputRoot(p) ==
    LET c == Components(p)
        r == Components(output_root)
    IN  /\ Len(c) >= Len(r)
        /\ SubSeq(c, 1, Len(r)) = r
        /\ DepthBelow(SubSeq(c, Len(r) + 1, Len(c)), 0) >= 0

\* C24: for every answer context the target of every Copy, Write and
\* CreateDirectory that process returns lies inside the output root
C24_TargetInsideOutputRoot ==
    (pc = "processed" /\ result.kind \in {"Copy", "Write", "CreateDirectory"})
        => InsideOutputRoot(result.target)

\* C29: the Ignore that process returns for an ignored entry has the path of
\* the entry as it is in the template, the path the ignore matcher was
\* evaluated against, in its source field
C29_IgnoreCarriesSourcePath ==
    (pc = "processed" /\ result.kind = "Ignore") => result.source = entry.path

----------------------------------------------------------------------------
(* Properties of run_hook (SpecHook) *)

\* the hook was started and reads all of its input
ReadsAll == child.state # "none" /\ child.script = "reads_all"

\* C30: run_hook has written the whole document and closed the stream when
\* it waits for the hook; a hook that reads all of its input gets the whole
\* document and then the end of input, whatever the size of the document,
\* and run_hook returns
C30_HookSeesEndOfInputAndParentReturns ==
    /\ [](pc = "wait" => /\ child_stdin.writer = "closed"
                         /\ child_stdin.written = Len(output_data))
    /\ []((child.state # "none" /\ child.eof) => child.input = output_data)
    /\ [](ReadsAll => <>(child.eof /\ child.input = output_data))
    /\ [](child.script = "reads_all" => <>(pc = "returned"))

\* a hook that reads all of its input has exited with status 0 after the end
\* of a document that did not fit into the pipe, and run_hook has returned
C30_Witness ==
    /\ pc = "returned"
    /\ result = Returned("Ok")
    /\ child.state = "reaped"
    /\ child.script = "reads_all"
    /\ child.eof
    /\ child.input = output_data
    /\ Len(output_data) > PipeCapacity

=============================================================================
